---- MODULE Spec2Model ----
(***************************************************************************)
(* Model of the "Assembly: Endgame" word game (src/src/App.jsx).           *)
(*                                                                         *)
(* The component owns two pieces of state, currentWord and guessedLetters; *)
(* everything else is recomputed from them on every render.  A handler     *)
(* only enqueues state updates; the next render applies, in order, all     *)
(* that were enqueued since the last one.  A JavaScript string is modelled *)
(* as the sequence of its characters, so "tat" is <<"t","a","t">> and the  *)
(* one-letter string "a" is <<"a">>.                                       *)
(***************************************************************************)
EXTENDS Integers, Sequences, FiniteSets, TLC

VARIABLES
    currentWord,     \* useState(() => getRandomWord())
    guessedLetters,  \* useState([])
    ladderLength,    \* languages.length, fixed for the life of the program
    lastCall,        \* the last step taken and the rendered state it found
    thrown,          \* the exception raised by the last render
    queue,           \* state updates enqueued by handlers, not yet rendered
    pc,              \* "idle", or "newGame" between the two writes of newGame()
    rounds           \* the rounds the word and the guesses on screen belong to

vars ==
    <<currentWord, guessedLetters, ladderLength, lastCall, thrown,
      queue, pc, rounds>>

---------------------------------------------------------------------------
\* Bounds of the model.

\* How many letters of KeyOrder the player may guess.
NumLetters == 3

\* Longest penalty ladder explored.
MaxLadder == 3

\* Most handler calls between two renders.
MaxQueue == 2

\* Shortest penalty ladder (spec section 4.1: length N >= 2).
MinLadder == 2

---------------------------------------------------------------------------
\* JavaScript values and the library functions the component uses.

\* The value undefined; every other value of the model is a string.
Undefined == <<"undefined">>

\* String(undefined), the conversion String.prototype.includes applies.
UndefinedText == <<"u", "n", "d", "e", "f", "i", "n", "e", "d">>

ToStr(v) == IF v = Undefined THEN UndefinedText ELSE v

\* JavaScript truthiness: undefined and "" are falsy, other strings truthy.
Truthy(v) == v # Undefined /\ v # <<>>

alphabet ==
    <<"a", "b", "c", "d", "e", "f", "g", "h", "i", "j", "k", "l", "m",
      "n", "o", "p", "q", "r", "s", "t", "u", "v", "w", "x", "y", "z">>

UpperAlphabet ==
    <<"A", "B", "C", "D", "E", "F", "G", "H", "I", "J", "K", "L", "M",
      "N", "O", "P", "Q", "R", "S", "T", "U", "V", "W", "X", "Y", "Z">>

\* Character.toUpperCase(): a lowercase letter maps to its capital, any
\* other character of the model to itself.
UpperChar(c) ==
    IF \E i \in 1..Len(alphabet) : alphabet[i] = c
    THEN UpperAlphabet[CHOOSE i \in 1..Len(alphabet) : alphabet[i] = c]
    ELSE c

\* String.prototype.toUpperCase()
toUpperCase(s) == [i \in 1..Len(s) |-> UpperChar(s[i])]

\* String.prototype.includes(search): substring search after converting
\* the argument to a string; the empty string is found in every string.
StrIncludes(s, search) ==
    LET t == ToStr(search)
    IN  \E i \in 0..(Len(s) - Len(t)) : SubSeq(s, i + 1, i + Len(t)) = t

\* Array.prototype.includes(v): some element equals v.
ArrIncludes(arr, v) == \E i \in 1..Len(arr) : arr[i] = v

\* String.prototype.split(""): the array of one-character strings.
Split(s) == [i \in 1..Len(s) |-> <<s[i]>>]

---------------------------------------------------------------------------
\* The word source (./utils and ./languages are not part of the sources;
\* modelled from the specification, section 4.1).

\* Candidate secret words: non-empty lowercase words.
words == { <<"a">>, <<"a", "t">>, <<"t", "a", "t">> }

\* The ladder lengths explored.
LadderLengths == MinLadder..MaxLadder

\* The order in which letters enter the set of guessable letters.
KeyOrder == <<"a", "t", "x", "y", "z", "q", "w", "e", "r", "c">>

\* The keyboard letters the model lets the player press.
Letters == { <<KeyOrder[i]>> : i \in 1..NumLetters }

---------------------------------------------------------------------------
\* Derived values, recomputed on every render (App.jsx lines 21-42).

\* A ladder with no tier held back.
guessesLeftOf_NoReserve(n) == n

guessesLeftOf(n) == n - 1

guessesLeft == guessesLeftOf(ladderLength)

\* A filter without the negation: it counts the letters found in the word.
wrongGuessCountOf_NoNegation(word, guessed) ==
    Len(SelectSeq(guessed, LAMBDA letter : StrIncludes(word, letter)))

wrongGuessCountOf(word, guessed) ==
    Len(SelectSeq(guessed, LAMBDA letter : ~StrIncludes(word, letter)))

wrongGuessCount == wrongGuessCountOf(currentWord, guessedLetters)

\* A win decided by counting guesses against the length of the word.
isGameWonOf_ByLength(word, guessed) ==
    Len(guessed) >= Len(word)

isGameWonOf(word, guessed) ==
    \A i \in 1..Len(word) : ArrIncludes(guessed, Split(word)[i])

isGameWon == isGameWonOf(currentWord, guessedLetters)

isGameLostOf(word, guessed, n) ==
    wrongGuessCountOf(word, guessed) >= guessesLeftOf(n)

isGameLost == isGameLostOf(currentWord, guessedLetters, ladderLength)

\* A game that is over only when it is won.
isGameOverOf_WonOnly(word, guessed, n) == isGameWonOf(word, guessed)

isGameOverOf(word, guessed, n) ==
    isGameWonOf(word, guessed) \/ isGameLostOf(word, guessed, n)

isGameOver == isGameOverOf(currentWord, guessedLetters, ladderLength)

\* guessedLetters[guessedLetters.length - 1]: undefined on an empty array.
lastGuessedLetterOf(guessed) ==
    IF Len(guessed) = 0 THEN Undefined ELSE guessed[Len(guessed)]

lastGuessedLetter == lastGuessedLetterOf(guessedLetters)

\* lastGuessedLetter && !currentWord.includes(lastGuessedLetter), as the
\* truth value the render uses: despite its name it is true when the last
\* guess was wrong.
isLastGuessCorrectOf(word, guessed) ==
    /\ Truthy(lastGuessedLetterOf(guessed))
    /\ ~StrIncludes(word, lastGuessedLetterOf(guessed))

isLastGuessCorrect == isLastGuessCorrectOf(currentWord, guessedLetters)

---------------------------------------------------------------------------
\* What the render shows (App.jsx lines 63-161).

\* languages[index] for a 0-based index: undefined outside the ladder.
InLadder(index, n) == index >= 0 /\ index < n

\* The farewell tier read at the wrong-guess count itself.
farewellIndexOf_NoOffset(word, guessed) == wrongGuessCountOf(word, guessed)

\* The index gameStatus() reads the farewell tier from (line 73).
farewellIndexOf(word, guessed) == wrongGuessCountOf(word, guessed) - 1

farewellIndex == farewellIndexOf(currentWord, guessedLetters)

\* A farewell that is shown after the game is over too.
farewellOf_IgnoreOver(word, guessed, n) == isLastGuessCorrectOf(word, guessed)

\* The condition of the farewell branch (lines 66 and 71).
farewellOf(word, guessed, n) ==
    ~isGameOverOf(word, guessed, n) /\ isLastGuessCorrectOf(word, guessed)

farewell == farewellOf(currentWord, guessedLetters, ladderLength)

\* gameStatus(): which message is rendered; the farewell branch names the
\* tier it reads, the last branch renders nothing.
gameStatusOf(word, guessed, n) ==
    IF farewellOf(word, guessed, n)
    THEN [message |-> "farewell", tier |-> farewellIndexOf(word, guessed)]
    ELSE IF isGameWonOf(word, guessed)
    THEN [message |-> "won", tier |-> -1]
    ELSE IF isGameLostOf(word, guessed, n)
    THEN [message |-> "lost", tier |-> -1]
    ELSE [message |-> "null", tier |-> -1]

gameStatus == gameStatusOf(currentWord, guessedLetters, ladderLength)

\* Reading .name of languages[index] throws a TypeError when the index is
\* outside the ladder; nothing else in a render can throw.
renderThrowsOf(word, guessed, n) ==
    IF /\ farewellOf(word, guessed, n)
       /\ ~InLadder(farewellIndexOf(word, guessed), n)
    THEN "TypeError"
    ELSE "none"

\* A chip lost one wrong guess early.
isLanguageLostOf_Inclusive(index, word, guessed) ==
    index <= wrongGuessCountOf(word, guessed)

\* isLanguageLost for the chip at a 0-based index (line 104).
isLanguageLostOf(index, word, guessed) ==
    index < wrongGuessCountOf(word, guessed)

\* languageElements: for every tier of the ladder, whether its chip has the
\* class "lost".
languageElementsOf(word, guessed, n) ==
    [index \in 0..(n - 1) |-> isLanguageLostOf(index, word, guessed)]

languageElements ==
    languageElementsOf(currentWord, guessedLetters, ladderLength)

\* A letter revealed only when guessed, also after a loss.
revealLetterOf_GuessedOnly(letter, word, guessed, n) ==
    ArrIncludes(guessed, letter)

\* revealLetter for one letter of the word (line 124).
revealLetterOf(letter, word, guessed, n) ==
    isGameLostOf(word, guessed, n) \/ ArrIncludes(guessed, letter)

\* A flag on every letter not guessed, lost round or not.
missedLetterOf_NoLost(letter, word, guessed, n) == ~ArrIncludes(guessed, letter)

\* The class "missed-letter" of one letter of the word (lines 125-127).
missedLetterOf(letter, word, guessed, n) ==
    isGameLostOf(word, guessed, n) /\ ~ArrIncludes(guessed, letter)

\* letterElements: for every position of the word the text shown and
\* whether it is flagged as missed.  Positions are 1-based in the model.
letterElementsOf(word, guessed, n) ==
    [i \in 1..Len(word) |->
        [text   |-> IF revealLetterOf(Split(word)[i], word, guessed, n)
                    THEN toUpperCase(Split(word)[i])
                    ELSE <<>>,
         missed |-> missedLetterOf(Split(word)[i], word, guessed, n)]]

letterElements == letterElementsOf(currentWord, guessedLetters, ladderLength)

\* A keyboard that stays enabled after the game is over.
keyboardDisabled_Never == FALSE

\* The keyboard buttons are disabled when the game is over as of the last
\* render (line 153).
keyboardDisabled == isGameOver

---------------------------------------------------------------------------
\* State updates.  A handler only enqueues them (setGuessedLetters and
\* setCurrentWord return at once); React applies them at the next render.

\* An updater that appends without looking for the letter.
addGuessedLetter_AlwaysAppend(prevLetters, letter) ==
    Append(prevLetters, letter)

\* An updater that keeps only the newest letter.
addGuessedLetter_OnlyNewest(prevLetters, letter) ==
    IF ArrIncludes(prevLetters, letter) THEN prevLetters ELSE <<letter>>

\* An updater that puts the new letter in front.
addGuessedLetter_Prepend(prevLetters, letter) ==
    IF ArrIncludes(prevLetters, letter)
    THEN prevLetters
    ELSE <<letter>> \o prevLetters

\* The updater addGuessedLetter passes to setGuessedLetters (lines 49-53).
addGuessedLetter(prevLetters, letter) ==
    IF ArrIncludes(prevLetters, letter)
    THEN prevLetters
    ELSE Append(prevLetters, letter)

\* The tag of the round after the one tagged r; two tags tell apart the
\* rounds on either side of a newGame().
NextRound(r) == 1 - r

\* setCurrentWord(word), called for the round tagged r (line 58).
SetCurrentWord(word, r) ==
    [setter |-> "setCurrentWord", kind |-> "value", arg |-> word, round |-> r]

\* A second write that stores the guesses on screen again.
SetGuessedLetters_KeepGuesses(r) ==
    [setter |-> "setGuessedLetters", kind |-> "value", arg |-> guessedLetters,
     round |-> r]

\* setGuessedLetters([]), called for the round tagged r (line 59).
SetGuessedLetters(r) ==
    [setter |-> "setGuessedLetters", kind |-> "value", arg |-> <<>>, round |-> r]

\* setGuessedLetters(prevLetters => ...) of addGuessedLetter (lines 49-53).
UpdateGuessedLetters(letter) ==
    [setter |-> "setGuessedLetters", kind |-> "updater", arg |-> letter,
     round |-> 0]

\* The state a render works on.
Rendered ==
    [currentWord |-> currentWord, guessedLetters |-> guessedLetters,
     wordRound |-> rounds.word, guessedRound |-> rounds.guessed]

\* One enqueued update applied to the state: a value replaces the state, an
\* updater function is called with the state the updates before it left.
applyUpdate(st, u) ==
    IF u.setter = "setCurrentWord"
    THEN [st EXCEPT !.currentWord = u.arg, !.wordRound = u.round]
    ELSE IF u.kind = "value"
    THEN [st EXCEPT !.guessedLetters = u.arg, !.guessedRound = u.round]
    ELSE [st EXCEPT !.guessedLetters = addGuessedLetter(@, u.arg)]

\* The first k updates of q applied in order.
RECURSIVE applyQueue(_, _, _)
applyQueue(st, q, k) ==
    IF k = 0 THEN st ELSE applyUpdate(applyQueue(st, q, k - 1), q[k])

\* The handler calls that enqueued the updates of q: one per updater, one
\* per setCurrentWord.
PendingCalls(q) ==
    Cardinality({ k \in 1..Len(q) :
                     q[k].kind = "updater" \/ q[k].setter = "setCurrentWord" })

---------------------------------------------------------------------------
\* Handlers and the render.

\* The record of a step: its name, its argument, the rendered state it
\* found and, for a render, the updates it applied.
Call(op, arg, applied) ==
    [op |-> op, arg |-> arg, applied |-> applied,
     word |-> currentWord, guessed |-> guessedLetters]

\* getRandomWord(): any word of the candidate list.
getRandomWord == words

\* One call of addGuessedLetter(letter): the updater is enqueued and the
\* function returns.  It has no condition on the argument or on the state
\* of the game, and the state on screen is not touched.
GuessLetter(letter) ==
    /\ pc = "idle"
    /\ PendingCalls(queue) < MaxQueue
    /\ queue' = Append(queue, UpdateGuessedLetters(letter))
    /\ lastCall' = Call("guessLetter", letter, <<>>)
    /\ UNCHANGED <<currentWord, guessedLetters, ladderLength, thrown, pc,
                   rounds>>

\* newGame(), first write: setCurrentWord(getRandomWord()) (line 58).
NewGame ==
    /\ pc = "idle"
    /\ PendingCalls(queue) < MaxQueue
    /\ \E word \in getRandomWord :
          queue' = Append(queue, SetCurrentWord(word, NextRound(rounds.started)))
    /\ rounds' = [rounds EXCEPT !.started = NextRound(@)]
    /\ pc' = "newGame"
    /\ lastCall' = Call("newGame", Undefined, <<>>)
    /\ UNCHANGED <<currentWord, guessedLetters, ladderLength, thrown>>

\* newGame(), second write: setGuessedLetters([]) (line 59); the handler
\* returns.
NewGameGuessed ==
    /\ pc = "newGame"
    /\ queue' = Append(queue, SetGuessedLetters(rounds.started))
    /\ pc' = "idle"
    /\ UNCHANGED <<currentWord, guessedLetters, ladderLength, lastCall,
                   thrown, rounds>>

\* A render that may run between the two writes of newGame().
canRender_MidHandler == TRUE

\* React renders once the running handler has returned, never inside it.
canRender == pc = "idle"

\* A render: the enqueued updates are applied in order and the page is
\* recomputed.  The record of the step keeps the updates it applied.
Render ==
    /\ canRender
    /\ queue # <<>>
    /\ LET st == applyQueue(Rendered, queue, Len(queue))
       IN  /\ currentWord' = st.currentWord
           /\ guessedLetters' = st.guessedLetters
           /\ rounds' = [rounds EXCEPT !.word = st.wordRound,
                                       !.guessed = st.guessedRound]
    /\ queue' = <<>>
    /\ lastCall' = Call("render", Undefined, queue)
    /\ UNCHANGED <<ladderLength, pc>>
    /\ thrown' = renderThrowsOf(currentWord', guessedLetters', ladderLength')

\* The state after the component mounts.
Init ==
    /\ currentWord \in getRandomWord
    /\ guessedLetters = <<>>
    /\ ladderLength \in LadderLengths
    /\ lastCall = [op |-> "mount", arg |-> Undefined, applied |-> <<>>,
                   word |-> currentWord, guessed |-> <<>>]
    /\ thrown = "none"
    /\ queue = <<>>
    /\ pc = "idle"
    /\ rounds = [started |-> 0, word |-> 0, guessed |-> 0]

\* The functions of the component, each callable whatever is on screen,
\* with the letters of the keyboard as arguments, and the render.
Next ==
    \/ \E letter \in Letters : GuessLetter(letter)
    \/ NewGame
    \/ NewGameGuessed
    \/ Render

Spec == Init /\ [][Next]_vars

\* Arguments outside the contract of guessLetter, beside a legal one:
\* the empty string, a two-character string, a digit, a capital, undefined.
RawArguments ==
    { <<"a">>, <<>>, <<"a", "t">>, <<"1">>, <<"A">>, Undefined }

InvalidArguments == RawArguments \ { <<alphabet[i]>> : i \in 1..Len(alphabet) }

\* addGuessedLetter called with any argument.
NextRaw ==
    \/ \E letter \in RawArguments : GuessLetter(letter)
    \/ NewGame
    \/ NewGameGuessed
    \/ Render

SpecRaw == Init /\ [][NextRaw]_vars

---------------------------------------------------------------------------
\* The page: the buttons and their handlers are those of the last render.
\* React renders the updates of a click before the next click is
\* dispatched, so a click finds no update pending.

\* A New Game button rendered in every state.
newGameButton_Always == TRUE

\* The New Game button is rendered only when the game is over (line 221).
newGameButton == isGameOver

\* A click on a letter button that the last render left enabled (lines 153
\* and 156).
ViewGuess(letter) ==
    /\ queue = <<>>
    /\ ~keyboardDisabled
    /\ GuessLetter(letter)

\* A click on the New Game button of the last render.
ViewNewGame ==
    /\ queue = <<>>
    /\ newGameButton
    /\ NewGame

NextView ==
    \/ \E letter \in Letters : ViewGuess(letter)
    \/ ViewNewGame
    \/ NewGameGuessed
    \/ Render

SpecView == Init /\ [][NextView]_vars

\* A click on a letter that is not among the guesses on screen.
NewGuess ==
    \E letter \in Letters :
        /\ ~ArrIncludes(guessedLetters, letter)
        /\ ViewGuess(letter)

\* The page with a player who, whenever letters not guessed yet can be
\* clicked again and again, clicks one.  newGame() is one synchronous call,
\* so its second write always follows the first, and React renders whenever
\* updates are pending.
SpecViewFair ==
    /\ SpecView
    /\ SF_vars(NewGuess)
    /\ WF_vars(NewGameGuessed)
    /\ WF_vars(Render)

---------------------------------------------------------------------------
\* The vocabulary of the specification, stated on sets and independently of
\* the code's expressions above.

\* The distinct letters of a word.
WordLetters(word) == { word[i] : i \in 1..Len(word) }

\* The guess set: the values guessed, without their order.
GuessSet(guessed) == { guessed[i] : i \in 1..Len(guessed) }

\* Whether a guessed value is a letter of the word.
InWord(word, letter) == \E c \in WordLetters(word) : letter = <<c>>

\* wrongCount: the number of guesses absent from the secret word.
WrongCount(word, guessed) ==
    Cardinality({ i \in 1..Len(guessed) : ~InWord(word, guessed[i]) })

\* isWon: every distinct letter of the word is in the guess set.
AllLettersGuessed(word, guessed) ==
    \A c \in WordLetters(word) : <<c>> \in GuessSet(guessed)

\* The game on screen is over.
RoundOver ==
    \/ AllLettersGuessed(currentWord, guessedLetters)
    \/ WrongCount(currentWord, guessedLetters) >= ladderLength - 1

\* The updates the last render applied, in the order of their calls.
Applied == lastCall.applied

\* The state on screen when the last render started.
Started ==
    [currentWord |-> lastCall.word, guessedLetters |-> lastCall.guessed,
     wordRound |-> 0, guessedRound |-> 0]

\* The state the first k of these updates left.
After(k) == applyQueue(Started, Applied, k)

\* The guess commands of the last render: the updater at position k was
\* applied to After(k - 1) and left After(k).
GuessSteps == { k \in 1..Len(Applied) : Applied[k].kind = "updater" }

\* Its newGame commands: the second write is at position k, the command was
\* applied to After(k - 2) and left After(k).
NewGameSteps ==
    { k \in 2..Len(Applied) :
         Applied[k].kind = "value" /\ Applied[k].setter = "setGuessedLetters" }

\* Guess command k was for a value already guessed, or for a new one.
ReGuessed(k) == Applied[k].arg \in GuessSet(After(k - 1).guessedLetters)
NewlyGuessed(k) == ~ReGuessed(k)

\* Derived facts of a state a command found or left.
Won(st) == isGameWonOf(st.currentWord, st.guessedLetters)
Lost(st) == isGameLostOf(st.currentWord, st.guessedLetters, ladderLength)
Over(st) == Won(st) \/ Lost(st)
Wrong(st) == WrongCount(st.currentWord, st.guessedLetters)
TiersOf(st) ==
    languageElementsOf(st.currentWord, st.guessedLetters, ladderLength)
RevealOf(st) ==
    letterElementsOf(st.currentWord, st.guessedLetters, ladderLength)

---------------------------------------------------------------------------
\* C1: in every reachable state, whatever the word and the sequence of
\* guessLetter and newGame commands, isWon and isLost are not both true.
\* Stated as claimed; the unguarded guess command (C2) lets a lost round
\* collect the letters of the word.
C1_WonLostExclusive == ~(isGameWon /\ isGameLost)

\* C2: a guess made when the game is over (won or lost) leaves the guesses
\* and the secret word as they were and raises no error, whatever the
\* letter.  Stated as claimed; addGuessedLetter has no such guard.
C2_GuessIgnoredWhenOver ==
    \A k \in GuessSteps :
        Over(After(k - 1)) =>
            /\ After(k).guessedLetters = After(k - 1).guessedLetters
            /\ After(k).currentWord = After(k - 1).currentWord
            /\ thrown = "none"

\* C3: guessing a letter that is already among the guesses changes nothing:
\* the guesses keep their content and order, wrongCount, won, lost and the
\* revealed letters stay as they were, and no error is raised.
C3_ReGuessIsNoOp ==
    \A k \in GuessSteps :
        ReGuessed(k) =>
            /\ After(k).guessedLetters = After(k - 1).guessedLetters
            /\ After(k).currentWord = After(k - 1).currentWord
            /\ Wrong(After(k)) = Wrong(After(k - 1))
            /\ Won(After(k)) = Won(After(k - 1))
            /\ Lost(After(k)) = Lost(After(k - 1))
            /\ RevealOf(After(k)) = RevealOf(After(k - 1))
            /\ thrown = "none"

\* C3 witness: a render has applied the guess of a wrong letter that was
\* among the guesses already.
C3_Witness ==
    \E k \in GuessSteps :
        /\ ReGuessed(k)
        /\ ~InWord(After(k - 1).currentWord, Applied[k].arg)
        /\ Wrong(After(k)) >= 1

\* C4: after newGame, whatever the state before and the word picked, the
\* guesses are empty, wrongCount is 0 and the round is being played: not
\* won, not lost, and no farewell is due.
C4_NewGameResets ==
    \A k \in NewGameSteps :
        /\ After(k).guessedLetters = <<>>
        /\ After(k).currentWord \in words
        /\ wrongGuessCountOf(After(k).currentWord, After(k).guessedLetters) = 0
        /\ Wrong(After(k)) = 0
        /\ ~Won(After(k))
        /\ ~Lost(After(k))
        /\ ~farewellOf(After(k).currentWord, After(k).guessedLetters,
                       ladderLength)

\* C4 witness: a render has applied a newGame called on a lost round that
\* had guesses, and the page shows the new round.
C4_Witness ==
    /\ \E k \in NewGameSteps :
          /\ Lost(After(k - 2))
          /\ Len(After(k - 2).guessedLetters) >= 2
    /\ guessedLetters = <<>>

\* C5: once every distinct letter of the word is guessed while wrongCount
\* is below the number of wrong guesses allowed, the round is won and not
\* lost, whatever the wrong guesses before and the order of the letters.
C5_AllLettersMeansWon ==
    ( /\ AllLettersGuessed(currentWord, guessedLetters)
      /\ WrongCount(currentWord, guessedLetters) < ladderLength - 1 ) =>
        /\ isGameWon
        /\ ~isGameLost
        /\ gameStatus.message = "won"

\* C5 witness: "tat" won by t, a with a wrong guess x in between.
C5_Witness ==
    /\ currentWord = <<"t", "a", "t">>
    /\ guessedLetters = << <<"t">>, <<"x">>, <<"a">> >>
    /\ isGameWon
    /\ wrongGuessCount = 1

\* C6: with a ladder of N tiers the round is lost exactly from the (N-1)-th
\* wrong letter on: it is not lost while fewer than N-1 letters are wrong,
\* the guess that makes it lost is a new wrong letter bringing wrongCount to
\* N-1, and with N-1 wrong letters tiers 0..N-2 are lost and tier N-1 is not.
C6_LostAtLastButOneTier ==
    /\ isGameLost <=>
          WrongCount(currentWord, guessedLetters) >= ladderLength - 1
    /\ \A k \in GuessSteps :
          (~Lost(After(k - 1)) /\ Lost(After(k))) =>
              /\ NewlyGuessed(k)
              /\ ~InWord(After(k).currentWord, Applied[k].arg)
              /\ Wrong(After(k - 1)) = ladderLength - 2
              /\ Wrong(After(k)) = ladderLength - 1
    /\ WrongCount(currentWord, guessedLetters) = ladderLength - 1 =>
          /\ \A i \in 0..(ladderLength - 2) : languageElements[i]
          /\ ~languageElements[ladderLength - 1]

\* C6 witness: on a ladder of 3 tiers a render has applied the guess of the
\* second wrong letter and the round, not lost before it, is lost.
C6_Witness ==
    /\ ladderLength = 3
    /\ \E k \in GuessSteps : ~Lost(After(k - 1)) /\ Lost(After(k))
    /\ isGameLost
    /\ wrongGuessCount = 2
    /\ languageElements = (0 :> TRUE @@ 1 :> TRUE @@ 2 :> FALSE)

\* C7: the tier at ordinal i is marked lost iff i < wrongCount, so exactly
\* the first wrongCount tiers are; a correct guess leaves the marks as they
\* were, and the marks depend on the number of wrong letters alone.
C7_TierLossMap ==
    /\ DOMAIN languageElements = 0..(ladderLength - 1)
    /\ \A i \in 0..(ladderLength - 1) :
          languageElements[i] <=> i < WrongCount(currentWord, guessedLetters)
    /\ \A k \in GuessSteps :
          InWord(After(k - 1).currentWord, Applied[k].arg) =>
              TiersOf(After(k)) = TiersOf(After(k - 1))

\* C7 witness: a render has applied the guess of a new correct letter after
\* a wrong one, with one tier lost and the next one not.
C7_Witness ==
    /\ \E k \in GuessSteps :
          /\ NewlyGuessed(k)
          /\ InWord(After(k - 1).currentWord, Applied[k].arg)
          /\ Wrong(After(k - 1)) = 1
    /\ wrongGuessCount = 1
    /\ languageElements[0]
    /\ ~languageElements[1]

\* C8: a farewell is due iff the game is not over and the most recent guess
\* exists and is absent from the word; then wrongCount >= 1 and the tier
\* read, wrongCount - 1, is an ordinal of the ladder, so the lookup never
\* fails; after a first wrong guess that leaves the game on, it is tier 0.
C8_FarewellTier ==
    /\ farewell <=>
          /\ ~AllLettersGuessed(currentWord, guessedLetters)
          /\ WrongCount(currentWord, guessedLetters) < ladderLength - 1
          /\ guessedLetters # <<>>
          /\ ~InWord(currentWord, guessedLetters[Len(guessedLetters)])
    /\ farewell =>
          /\ WrongCount(currentWord, guessedLetters) >= 1
          /\ gameStatus.message = "farewell"
          /\ gameStatus.tier = WrongCount(currentWord, guessedLetters) - 1
          /\ gameStatus.tier >= 0
          /\ gameStatus.tier < ladderLength
    /\ (farewell /\ WrongCount(currentWord, guessedLetters) = 1) =>
          gameStatus.tier = 0
    /\ thrown = "none"

\* C8 witness: "tat", first guess x rendered, game still on: farewell of
\* tier 0.
C8_Witness ==
    /\ currentWord = <<"t", "a", "t">>
    /\ guessedLetters = << <<"x">> >>
    /\ lastCall.op = "render"
    /\ farewell
    /\ gameStatus = [message |-> "farewell", tier |-> 0]

\* The capital of a letter of the candidate words.
Capital(c) == CASE c = "a" -> "A" [] c = "t" -> "T"

\* Every position of the word shows a letter.
AllRevealed == \A i \in 1..Len(currentWord) : letterElements[i].text # <<>>

\* C9: a position of the word shows its capital letter iff the round is
\* lost or the letter is guessed, and a blank otherwise; so a won round and
\* a lost round show every position, and a round being played hides one.
C9_RevealMap ==
    /\ DOMAIN letterElements = 1..Len(currentWord)
    /\ \A i \in 1..Len(currentWord) :
          letterElements[i].text =
             IF \/ WrongCount(currentWord, guessedLetters) >= ladderLength - 1
                \/ <<currentWord[i]>> \in GuessSet(guessedLetters)
             THEN <<Capital(currentWord[i])>>
             ELSE <<>>
    /\ isGameWon => AllRevealed
    /\ isGameLost => AllRevealed
    /\ ~isGameOver => ~AllRevealed

\* C9 witness: a lost round of "tat" in which only a was guessed shows TAT.
C9_Witness ==
    /\ currentWord = <<"t", "a", "t">>
    /\ isGameLost
    /\ ~isGameWon
    /\ GuessSet(guessedLetters) \cap { <<"a">>, <<"t">> } = { <<"a">> }
    /\ [i \in 1..3 |-> letterElements[i].text] = << <<"T">>, <<"A">>, <<"T">> >>

\* C10: a guess whose argument is not one lowercase letter fails with an
\* InvalidInputError and leaves the guesses and the word as they were; no
\* such value is ever among the guesses.  Stated as claimed;
\* addGuessedLetter enqueues an updater for any value, the updater appends
\* it, and nothing raises.
C10_InvalidGuessRejected ==
    /\ (lastCall.op = "guessLetter" /\ lastCall.arg \in InvalidArguments) =>
          thrown = "InvalidInputError"
    /\ \A k \in GuessSteps :
          Applied[k].arg \in InvalidArguments =>
              /\ After(k).guessedLetters = After(k - 1).guessedLetters
              /\ After(k).currentWord = After(k - 1).currentWord
    /\ GuessSet(guessedLetters) \cap InvalidArguments = {}

\* C11: newGame is always legal: in every reachable state, a round being
\* played included, the command is available, and issuing it replaces the
\* round without error.  Stated as claimed; the page renders the New Game
\* button only when the game is over.
C11_NewGameAlwaysAvailable ==
    /\ newGameButton
    /\ \A k \in NewGameSteps :
          After(k).guessedLetters = <<>> /\ thrown = "none"

\* C11 as amended: the page offers newGame exactly when the game on screen
\* is over (won or lost); issued there, it replaces the round without
\* error, and no newGame is ever called on a page whose round is played.
C11_NewGameWhenOver ==
    /\ newGameButton <=> RoundOver
    /\ lastCall.op = "newGame" => RoundOver
    /\ \A k \in NewGameSteps :
          /\ Over(Started)
          /\ After(k).currentWord \in words
          /\ After(k).guessedLetters = <<>>
          /\ thrown = "none"

\* C11 witness: a render has applied a newGame issued on a won round and a
\* new round is on.
C11_Witness ==
    /\ NewGameSteps # {}
    /\ Won(Started)
    /\ ~Lost(Started)
    /\ guessedLetters = <<>>
    /\ ~isGameOver

\* C12: a new round replaces the word and the guesses together: no render
\* pairs the word of one round with the guesses of another, although
\* newGame() writes them one after the other; the render that applies a
\* newGame shows a word of the list and, unless guesses follow, no guesses.
C12_NewRoundAtomic ==
    /\ rounds.word = rounds.guessed
    /\ \A k \in NewGameSteps :
          /\ Applied[k - 1].setter = "setCurrentWord"
          /\ After(k).currentWord = Applied[k - 1].arg
          /\ After(k).guessedLetters = <<>>
    /\ (Applied # <<>> /\ Applied[Len(Applied)].kind = "value") =>
          /\ Len(Applied) \in NewGameSteps
          /\ currentWord \in words
          /\ guessedLetters = <<>>

\* C12 witness: a render has replaced a finished round that had guesses by
\* a round with another word and no guesses.
C12_Witness ==
    /\ NewGameSteps # {}
    /\ Over(Started)
    /\ Len(lastCall.guessed) >= 1
    /\ currentWord # lastCall.word
    /\ guessedLetters = <<>>
    /\ rounds.word = 1

\* C13: of several guesses whose handlers all come from one render of a
\* game not over and whose updaters one render applies, none is accepted
\* after one of them has ended the game: from the state in which the game
\* first became over, the guesses do not grow.  Stated as claimed; the
\* updaters are applied one after the other with no look at the state of
\* the game (C2).
C13_NoGuessAcceptedAfterOver ==
    (~Over(Started) /\ NewGameSteps = {}) =>
        \A k \in GuessSteps :
            \A j \in 1..(k - 1) :
                Over(After(j)) =>
                    After(k).guessedLetters = After(j).guessedLetters

\* C14: won and lost are terminal under guesses: a guess on a won round
\* leaves it won and a guess on a lost round leaves it lost; only newGame
\* takes a finished round back to play, and it always does.
C14_TerminalPhases ==
    /\ \A k \in GuessSteps :
          /\ Won(After(k - 1)) => Won(After(k))
          /\ Lost(After(k - 1)) => Lost(After(k))
          /\ Over(After(k - 1)) => Over(After(k))
    /\ \A k \in NewGameSteps : ~Over(After(k))
    /\ (lastCall.op = "render" /\ Over(Started) /\ ~isGameOver) =>
          NewGameSteps # {}

\* C14 witness: a render has applied the guess of a new letter on a won
\* round, which is still won.
C14_Witness ==
    \E k \in GuessSteps :
        /\ NewlyGuessed(k)
        /\ Won(After(k - 1))
        /\ Won(After(k))
        /\ Len(After(k).guessedLetters) > Len(After(k - 1).guessedLetters)

\* The one-letter strings of the lowercase alphabet.
AlphabetLetters == { <<alphabet[i]>> : i \in 1..Len(alphabet) }

\* C15: within a round the guesses only grow: a guess leaves them as they
\* were or appends its letter at the end; they hold lowercase letters of the
\* alphabet only, each at most once; only newGame empties them.
C15_GuessesGrow ==
    /\ \A k \in GuessSteps :
          \/ After(k).guessedLetters = After(k - 1).guessedLetters
          \/ /\ After(k).guessedLetters
                   = After(k - 1).guessedLetters \o <<Applied[k].arg>>
             /\ NewlyGuessed(k)
    /\ GuessSet(guessedLetters) \subseteq AlphabetLetters
    /\ Cardinality(GuessSet(guessedLetters)) = Len(guessedLetters)
    /\ Len(guessedLetters) <= Len(alphabet)
    /\ (guessedLetters = <<>> /\ lastCall.guessed # <<>>) =>
          NewGameSteps # {}

\* C15 witness: a render has appended a third letter to two earlier guesses.
C15_Witness ==
    \E k \in GuessSteps :
        /\ NewlyGuessed(k)
        /\ Len(After(k - 1).guessedLetters) = 2
        /\ Len(After(k).guessedLetters) = 3
        /\ SubSeq(After(k).guessedLetters, 1, 2) = After(k - 1).guessedLetters

\* The positions of the word that show a letter.
RevealedPositions(st) ==
    { i \in 1..Len(st.currentWord) : RevealOf(st)[i].text # <<>> }

\* The positions that show a letter because it was guessed.
GuessedPositions(st) ==
    { i \in RevealedPositions(st) : ~RevealOf(st)[i].missed }

\* C16: a guess never changes the word, and a newly guessed letter does one
\* of two things.  A letter of the word leaves wrongCount and the tier marks
\* as they were and adds a guessed position (a revealed one, if the game was
\* on).  A letter absent from the word adds 1 to wrongCount and no guessed
\* position.  So one guess never takes a round being played to won and lost.
C16_GuessEffect ==
    \A k \in GuessSteps :
        LET pre == After(k - 1)
            post == After(k)
            letter == Applied[k].arg
        IN  /\ post.currentWord = pre.currentWord
            /\ (NewlyGuessed(k) /\ InWord(pre.currentWord, letter)) =>
                  /\ wrongGuessCountOf(post.currentWord, post.guessedLetters)
                        = wrongGuessCountOf(pre.currentWord, pre.guessedLetters)
                  /\ TiersOf(post) = TiersOf(pre)
                  /\ GuessedPositions(pre) \subseteq GuessedPositions(post)
                  /\ GuessedPositions(pre) # GuessedPositions(post)
                  /\ ~Over(pre) =>
                        /\ RevealedPositions(pre) \subseteq RevealedPositions(post)
                        /\ RevealedPositions(pre) # RevealedPositions(post)
            /\ (NewlyGuessed(k) /\ ~InWord(pre.currentWord, letter)) =>
                  /\ wrongGuessCountOf(post.currentWord, post.guessedLetters)
                        = wrongGuessCountOf(pre.currentWord, pre.guessedLetters) + 1
                  /\ GuessedPositions(pre) = GuessedPositions(post)
                  /\ Won(post) = Won(pre)
            /\ ~Over(pre) => ~(Won(post) /\ Lost(post))

\* C16 witness: a render has applied, after a wrong guess, the guess of the
\* last missing letter of the word in a round being played, which is won.
C16_Witness ==
    /\ \E k \in GuessSteps :
          /\ NewlyGuessed(k)
          /\ InWord(After(k - 1).currentWord, Applied[k].arg)
          /\ ~Over(After(k - 1))
          /\ Won(After(k))
          /\ Wrong(After(k)) = 1
    /\ isGameWon
    /\ ~isGameLost

\* Some position of the word is flagged as missed.
SomeMissed == \E i \in 1..Len(currentWord) : letterElements[i].missed

\* C17: a position is flagged as missed iff the round is lost and its
\* letter is not guessed; no position is flagged while the round is played
\* or won, a flagged position is revealed, and every lost round on the
\* page flags a position.
C17_MissedPositions ==
    /\ \A i \in 1..Len(currentWord) :
          letterElements[i].missed <=>
             /\ WrongCount(currentWord, guessedLetters) >= ladderLength - 1
             /\ <<currentWord[i]>> \notin GuessSet(guessedLetters)
    /\ ~isGameOver => ~SomeMissed
    /\ isGameWon => ~SomeMissed
    /\ \A i \in 1..Len(currentWord) :
          letterElements[i].missed => letterElements[i].text # <<>>
    /\ isGameLost => SomeMissed

\* C17 witness: a lost round of "tat" in which a was guessed flags both t
\* and leaves a unflagged.
C17_Witness ==
    /\ currentWord = <<"t", "a", "t">>
    /\ lastCall.op = "render"
    /\ isGameLost
    /\ [i \in 1..3 |-> letterElements[i].missed] = <<TRUE, FALSE, TRUE>>

\* The number of distinct letters of the word.
DistinctLetters == Cardinality(WordLetters(currentWord))

\* C18: every round ends: with a player who keeps guessing letters not yet
\* guessed the round gets won or lost, and on the page the guesses of a
\* round number at most D + (N - 1) - 1, and at most 26.
C18_RoundTerminates ==
    /\ [](Len(guessedLetters) <= DistinctLetters + (ladderLength - 1) - 1)
    /\ [](Len(guessedLetters) <= 26)
    /\ (~RoundOver) ~> RoundOver

\* C18 witness: a round of "tat" on 3 tiers ended by its 3rd guess, the most
\* the bound allows.
C18_Witness ==
    /\ currentWord = <<"t", "a", "t">>
    /\ ladderLength = 3
    /\ Len(guessedLetters) = 3
    /\ GuessSteps # {}
    /\ ~Over(Started)
    /\ isGameOver

\* C19: on the page wrongCount never exceeds N - 1, the number of wrong
\* guesses allowed, so the last tier of the ladder is never marked lost.
C19_LastTierNeverLost ==
    /\ wrongGuessCount <= guessesLeft
    /\ WrongCount(currentWord, guessedLetters) <= ladderLength - 1
    /\ ~languageElements[ladderLength - 1]

\* C19 witness: a lost round on 3 tiers: two wrong letters, tiers 0 and 1
\* lost, tier 2 not.
C19_Witness ==
    /\ ladderLength = 3
    /\ lastCall.op = "render"
    /\ isGameLost
    /\ WrongCount(currentWord, guessedLetters) = 2
    /\ languageElements = (0 :> TRUE @@ 1 :> TRUE @@ 2 :> FALSE)

\* The status conditions that hold: farewell, won, lost.
StatusConditions ==
    { c \in {"farewell", "won", "lost"} :
         \/ c = "farewell" /\ ~isGameOver /\ isLastGuessCorrect
         \/ c = "won" /\ isGameWon
         \/ c = "lost" /\ isGameLost }

\* C20: of farewell, won and lost at most one holds in every state, the
\* message rendered is the one that holds, and nothing is rendered when
\* none does.
C20_OneStatus ==
    /\ Cardinality(StatusConditions) <= 1
    /\ \A c \in StatusConditions : gameStatus.message = c
    /\ StatusConditions = {} => gameStatus.message = "null"

\* C20 witness: a round lost by a wrong last guess shows the lost message
\* and no farewell.
C20_Witness ==
    /\ lastCall.op = "render"
    /\ isGameLost
    /\ isLastGuessCorrect
    /\ StatusConditions = {"lost"}
    /\ gameStatus.message = "lost"

====
